---- MODULE Spec2Model ----
(***************************************************************************)
(* Model of the chunk-embedding pipeline of messenger-rag:                 *)
(*   src/embeddings_runpod/embed_chunks.py      (variant "v1")             *)
(*   src/embeddings_runpod/embed_chunks_v2.py   (variant "v2")             *)
(*   src/embeddings_runpod/embed_via_http.py    (variant "http")           *)
(* A worker is one process running main() of one of the scripts.  The      *)
(* embedding service and the failures of its calls are the environment.    *)
(***************************************************************************)
EXTENDS Integers, Sequences, FiniteSets, TLC

\* ------------------------------------------------------------ constants
\* Program constants (the same in the three scripts).
EMBED_BATCH_SIZE == 25
FILE_BATCH_SIZE == 100

\* Bounds of the model.
\* Environment faults (failed group call, failed single call, short
\* response) injected into one run.
MaxFaults == 2
\* The large window has FILE_BATCH_SIZE + MaxOver chunks.
MaxOver == 1
\* A small window has 0..MaxSmall chunks.
MaxSmall == 2
\* Restarts of one worker.
MaxRestarts == 1
\* The planner: totals 0..MaxTotal split over 1..MaxPods workers.
MaxTotal == 12
MaxPods == 7
\* The loader: files of up to MaxLines lines, --offset in 0..MaxOffset and
\* --count absent or in 0..MaxCount.
MaxLines == 4
MaxOffset == 2
MaxCount == 2
\* The runs in which nothing fails: windows of 0..MaxClean chunks.
MaxClean == 130

Variants == {"v1", "v2", "http"}
Workers == {"A", "B"}
NoWorker == "B"
\* The worker that main() runs process_chunks for.
MainWorker == "A"

VARIABLES
    variant,        \* which script the workers run
    pod_id,         \* [w] args.pod_id (v1, v2); http has no such argument
    chunks,         \* [w] the list passed to process_chunks (dicts, mutated in place)
    pc,             \* [w] position of the worker in main / process_chunks
    i,              \* [w] loop variable of `for i in range(0, total, EMBED_BATCH_SIZE)`
    j,              \* [w] position of the zip or fallback loop in batch_chunks (1-based)
    processed,      \* [w]
    failed,         \* [w] the counter of embed_via_http.py (v1, v2 have none)
    file_batch,     \* [w] accumulator: references (indices) into chunks[w]
    file_batch_num, \* [w]
    disk,           \* the output directory: filepath -> content
    writes,         \* history: every file write, in order
    calls,          \* [w] history: every call to get_embeddings_batch
    out,            \* [w] what the worker printed
    faults,         \* [w] history: number of environment faults injected
    run,            \* [w] history: 0 for the first run, +1 per restart
    embeddings,     \* [w] the list the group call returned, while zip runs over it
    \* --stats of embed_chunks.py
    total_chunks,   \* count_chunks(args.input)
    indexable_chunks, \* second component of count_chunks of embed_chunks_v2.py
    n_pods,         \* the number of workers the plan is printed for
    p,              \* loop variable of `for p in range(n_pods)`
    plan,           \* the (offset, count) pairs printed so far
    \* load_indexable_chunks of embed_chunks_v2.py
    lines,          \* the records of the input file, one per line
    offset,         \* args.offset
    count,          \* args.count: <<>> for None, <<n>> for n
    pos,            \* number of lines the loop has consumed
    loaded,         \* the local list `chunks` of the loader
    skipped,        \* the local counter `skipped` of the loader
    lpc             \* position of main() before process_chunks: "off", "count",
                    \* "reading", "returned", "handed", or "raised"

procVars == <<variant, pod_id, chunks, pc, i, j, processed, failed, file_batch,
              file_batch_num, disk, writes, calls, out, faults, run, embeddings>>

planVars == <<total_chunks, indexable_chunks, n_pods, p, plan>>

loadVars == <<lines, offset, count, pos, loaded, skipped, lpc>>

vars == <<procVars, planVars, loadVars>>

\* ------------------------------------------------------------ helpers
Min(a, b) == IF a < b THEN a ELSE b

RECURSIVE DecDigits(_)
\* str(n) for n >= 0: the decimal digits, most significant first.
DecDigits(n) == IF n < 10 THEN <<n>> ELSE Append(DecDigits(n \div 10), n % 10)

\* f"{n:06d}": zero-padded on the left to at least 6 digits.
Format06d(n) ==
    LET d == DecDigits(n)
    IN  IF Len(d) >= 6 THEN d ELSE [k \in 1..(6 - Len(d)) |-> 0] \o d

\* The embedding service: the vector it returns for a text.
Embed(text) == <<text>>

\* A chunk of the input: a dict with its identifier and its text.
MakeChunk(k) == [chunk_id |-> k, text |-> k]

\* chunk["embedding"] = emb
SetEmbedding(chunk, emb) ==
    [f \in DOMAIN chunk \cup {"embedding"} |->
        IF f = "embedding" THEN emb ELSE chunk[f]]

\* ------------------------------------------------------------ Chunk Source
\* A record of the input file: the flag is true, false or absent.
MakeRecord(k, flag) ==
    IF flag = "absent" THEN MakeChunk(k)
    ELSE [chunk_id |-> k, text |-> k, is_indexable |-> (flag = "true")]

\* Variant of IsIndexable that takes a record without the flag as not usable.
IsIndexableStrict(chunk) ==
    IF "is_indexable" \in DOMAIN chunk THEN chunk.is_indexable ELSE FALSE

\* chunk.get('is_indexable', True)
IsIndexable(chunk) ==
    IF "is_indexable" \in DOMAIN chunk THEN chunk.is_indexable ELSE TRUE

\* A line of the input file that is not JSON.
Malformed == [malformed |-> TRUE]

\* json.loads(line.strip()) returns (it raises json.JSONDecodeError otherwise).
Parses(line) == "malformed" \notin DOMAIN line

\* load_indexable_chunks of embed_chunks_v2.py: one iteration of
\* `for i, line in enumerate(f)`.
LoadLine ==
    /\ variant = "v2"
    /\ lpc = "reading"
    /\ pos < Len(lines)
    /\ pos' = pos + 1
    /\ LET chunk == lines[pos + 1]
       IN  IF ~Parses(chunk)
           THEN \* json.loads raises: nothing in main() catches it
                /\ lpc' = "raised"
                /\ UNCHANGED <<loaded, skipped>>
           ELSE IF ~IsIndexable(chunk)
           THEN \* skipped += 1; continue
                /\ skipped' = skipped + 1
                /\ UNCHANGED <<loaded, lpc>>
           ELSE IF Len(loaded) + skipped < offset
           THEN \* continue
                UNCHANGED <<loaded, skipped, lpc>>
           ELSE IF count # <<>> /\ Len(loaded) >= count[1]
           THEN \* break
                /\ lpc' = "returned"
                /\ UNCHANGED <<loaded, skipped>>
           ELSE /\ loaded' = Append(loaded, chunk)
                /\ UNCHANGED <<skipped, lpc>>
    /\ UNCHANGED <<lines, offset, count>>
    /\ UNCHANGED <<procVars, planVars>>

\* The file is exhausted: `return chunks, skipped`.
LoadReturn ==
    /\ lpc = "reading"
    /\ pos = Len(lines)
    /\ lpc' = "returned"
    /\ UNCHANGED <<lines, offset, count, pos, loaded, skipped>>
    /\ UNCHANGED <<procVars, planVars>>

\* load_chunks of embed_chunks.py: one iteration of `for i, line in
\* enumerate(f)`.  The line is parsed only when it is in the window.
LoadLineV1 ==
    /\ variant = "v1"
    /\ lpc = "reading"
    /\ pos < Len(lines)
    /\ pos' = pos + 1
    /\ LET line == lines[pos + 1]
       IN  IF pos < offset
           THEN \* continue
                UNCHANGED <<loaded, lpc>>
           ELSE IF count # <<>> /\ Len(loaded) >= count[1]
           THEN \* break
                /\ lpc' = "returned"
                /\ UNCHANGED loaded
           ELSE IF ~Parses(line)
           THEN /\ lpc' = "raised"
                /\ UNCHANGED loaded
           ELSE /\ loaded' = Append(loaded, line)
                /\ UNCHANGED lpc
    /\ UNCHANGED <<lines, offset, count, skipped>>
    /\ UNCHANGED <<procVars, planVars>>

\* load_indexable_chunks of embed_via_http.py: one iteration of `for line in f`.
LoadLineHttp ==
    /\ variant = "http"
    /\ lpc = "reading"
    /\ pos < Len(lines)
    /\ pos' = pos + 1
    /\ LET chunk == lines[pos + 1]
       IN  IF ~Parses(chunk)
           THEN /\ lpc' = "raised"
                /\ UNCHANGED <<loaded, skipped>>
           ELSE IF IsIndexable(chunk)
           THEN /\ loaded' = Append(loaded, chunk)
                /\ UNCHANGED <<skipped, lpc>>
           ELSE /\ skipped' = skipped + 1
                /\ UNCHANGED <<loaded, lpc>>
    /\ UNCHANGED <<lines, offset, count>>
    /\ UNCHANGED <<procVars, planVars>>

\* count_chunks: one iteration of its loop.  embed_chunks.py counts the
\* lines; embed_chunks_v2.py parses each line and counts the usable ones too.
CountLine ==
    /\ variant \in {"v1", "v2"}
    /\ lpc = "count"
    /\ pos < Len(lines)
    /\ pos' = pos + 1
    /\ LET line == lines[pos + 1]
       IN  IF variant = "v1"
           THEN /\ total_chunks' = total_chunks + 1
                /\ UNCHANGED <<indexable_chunks, lpc>>
           ELSE IF ~Parses(line)
           THEN /\ lpc' = "raised"
                /\ UNCHANGED <<total_chunks, indexable_chunks>>
           ELSE /\ total_chunks' = total_chunks + 1
                /\ indexable_chunks' =
                      indexable_chunks + (IF IsIndexable(line) THEN 1 ELSE 0)
                /\ UNCHANGED lpc
    /\ UNCHANGED <<lines, offset, count, loaded, skipped>>
    /\ UNCHANGED <<n_pods, p, plan>>
    /\ UNCHANGED procVars

\* count_chunks returns, and main() prints what it counted before it loads:
\* embed_chunks_v2.py prints 100*indexable_chunks/total_chunks.
CountReturn ==
    /\ variant \in {"v1", "v2"}
    /\ lpc = "count"
    /\ pos = Len(lines)
    /\ pos' = 0
    /\ lpc' = IF variant = "v2" /\ total_chunks = 0
              THEN "raised"  \* ZeroDivisionError
              ELSE "reading"
    /\ UNCHANGED <<lines, offset, count, loaded, skipped>>
    /\ UNCHANGED <<procVars, planVars>>

\* ------------------------------------------------------------ Partition Planner
\* Variant of PlanWindow that gives the last worker per_pod chunks as well.
PlanWindowEven(total, n, q) ==
    LET per_pod == total \div n
    IN  [offset |-> q * per_pod, count |-> per_pod]

\* The window printed for worker q of n: `per_pod = total_chunks // n_pods`,
\* `offset = p * per_pod`,
\* `count = per_pod if p < n_pods - 1 else total_chunks - offset`.
PlanWindow(total, n, q) ==
    LET per_pod == total \div n
        off == q * per_pod
    IN  [offset |-> off, count |-> IF q < n - 1 THEN per_pod ELSE total - off]

\* One iteration of `for p in range(n_pods)`: the line of worker p.
PlanPod ==
    /\ p < n_pods
    /\ plan' = Append(plan, PlanWindow(total_chunks, n_pods, p))
    /\ p' = p + 1
    /\ UNCHANGED <<total_chunks, indexable_chunks, n_pods>>
    /\ UNCHANGED <<procVars, loadVars>>

\* ------------------------------------------------------------ Output Writer
OutputDir == "output"

\* The filename save_batch builds in each script.
Filename(v, pod, batch_num) ==
    IF v = "v1"
    THEN <<"chunks_pod", DecDigits(pod), "_batch_", Format06d(batch_num), ".json">>
    ELSE IF v = "v2"
    THEN <<"chunks_v2_pod", DecDigits(pod), "_batch_", Format06d(batch_num), ".json">>
    ELSE <<"chunks_v2_batch_", Format06d(batch_num), ".json">>

\* os.path.join(output_dir, filename)
FilePath(w, batch_num) == <<OutputDir, Filename(variant, pod_id[w], batch_num)>>

\* The local state of process_chunks that its loop body updates, with the
\* output directory.
LocalState(w) ==
    [chunks |-> chunks[w], file_batch |-> file_batch[w],
     file_batch_num |-> file_batch_num[w], processed |-> processed[w],
     disk |-> disk, writes |-> writes]

\* json.dump(batch, f): the accumulator holds references to the dicts of
\* `chunks`, serialised as they are at the time of the write.
Serialise(st) == [n \in 1..Len(st.file_batch) |-> st.chunks[st.file_batch[n]]]

\* save_batch(file_batch, pod_id, file_batch_num, output_dir): open(filepath, 'w')
\* creates the file or truncates an existing one.
save_batch(st, w) ==
    LET path == FilePath(w, st.file_batch_num)
        content == Serialise(st)
    IN  [st EXCEPT
            !.disk = [fp \in DOMAIN st.disk \cup {path} |->
                         IF fp = path THEN content ELSE st.disk[fp]],
            !.writes = Append(@, [worker |-> w, run |-> run[w], path |-> path,
                                   batch_num |-> st.file_batch_num,
                                   size |-> Len(content)])]

\* ------------------------------------------------------------ Batch Processor
\* Variant of FlushIfFull that does not move to the next sequence number.
FlushSameNumber(st, w) ==
    CHOOSE r \in {IF Len(s.file_batch) >= FILE_BATCH_SIZE
                  THEN [save_batch(s, w) EXCEPT !.file_batch = <<>>]
                  ELSE s : s \in {st}} : TRUE

\* Variant of FlushIfFull that flushes only above the bound.
FlushIfOver(st, w) ==
    CHOOSE r \in {IF Len(s.file_batch) > FILE_BATCH_SIZE
                  THEN [save_batch(s, w) EXCEPT !.file_batch_num = @ + 1,
                                                !.file_batch = <<>>]
                  ELSE s : s \in {st}} : TRUE

\* `if len(file_batch) >= FILE_BATCH_SIZE: save_batch(...); file_batch_num += 1;
\* file_batch = []`
\* (Written over the one-element set {st} so that the state is evaluated once.)
FlushIfFull(st, w) ==
    CHOOSE r \in {IF Len(s.file_batch) >= FILE_BATCH_SIZE
                  THEN [save_batch(s, w) EXCEPT !.file_batch_num = @ + 1,
                                                !.file_batch = <<>>]
                  ELSE s : s \in {st}} : TRUE

\* Variant of AttachAndAppend that puts the chunk at the head of the
\* accumulator.
AttachAndPrepend(st, w, k, emb) ==
    FlushIfFull([st EXCEPT !.chunks[k] = SetEmbedding(@, emb),
                           !.file_batch = <<k>> \o @,
                           !.processed = @ + 1], w)

\* Body of the success loop `for chunk, emb in zip(batch_chunks, embeddings)`:
\* chunk k of the window gets its vector, joins the accumulator and is counted.
AttachAndAppend(st, w, k, emb) ==
    FlushIfFull([st EXCEPT !.chunks[k] = SetEmbedding(@, emb),
                           !.file_batch = Append(@, k),
                           !.processed = @ + 1], w)

\* Variant of FallbackAppend that leaves the flush to the end of the run.
FallbackAppendNoFlush(st, w, k, emb) ==
    [st EXCEPT !.chunks[k] = SetEmbedding(@, emb),
               !.file_batch = Append(@, k),
               !.processed = @ + 1]

\* Body of the inner try of the fallback loop, after the single call returned.
FallbackAppend(st, w, k, emb) ==
    FlushIfFull([st EXCEPT !.chunks[k] = SetEmbedding(@, emb),
                           !.file_batch = Append(@, k),
                           !.processed = @ + 1], w)

RECURSIVE ZipLoopFirstVector(_, _, _, _, _)
\* Variant of ZipLoop that attaches the first vector of the response to every
\* chunk of the group.
ZipLoopFirstVector(st, w, batch, embs, n) ==
    IF n > Min(Len(batch), Len(embs)) THEN st
    ELSE ZipLoopFirstVector(AttachAndAppend(st, w, batch[n], embs[1]), w, batch,
                            embs, n + 1)

RECURSIVE ZipLoop(_, _, _, _, _)
\* The success loop over zip(batch_chunks, embeddings), from pair n on: zip
\* stops at the shorter of the two lists.
ZipLoop(st, w, batch, embs, n) ==
    IF n > Min(Len(batch), Len(embs)) THEN st
    ELSE ZipLoop(AttachAndAppend(st, w, batch[n], embs[n]), w, batch, embs, n + 1)

\* Variant of BatchIndices whose slice is one chunk longer, so that consecutive
\* groups overlap: chunks[i:i+EMBED_BATCH_SIZE+1].
BatchIndicesOverlap(total, lo) ==
    [n \in 1..(Min(lo + EMBED_BATCH_SIZE + 1, total) - lo) |-> lo + n]

\* batch_chunks = chunks[i:i+EMBED_BATCH_SIZE], as indices into the window.
BatchIndices(total, lo) ==
    [n \in 1..(Min(lo + EMBED_BATCH_SIZE, total) - lo) |-> lo + n]

\* texts = [c["text"] for c in batch_chunks]
Texts(cs, batch) == [n \in 1..Len(batch) |-> cs[batch[n]].text]

\* What the service returns for `texts` when the call succeeds and the
\* response carries m vectors (m = Len(texts) when it honours its contract).
Response(texts, m) == [n \in 1..m |-> Embed(texts[n])]

\* The numbers of vectors a successful response to n texts may carry: the
\* contractual n, or one short, or none.
ShortLens(n) == {m \in {0, n - 1} : m >= 0 /\ m < n}

Commit(w, st) ==
    /\ chunks' = [chunks EXCEPT ![w] = st.chunks]
    /\ file_batch' = [file_batch EXCEPT ![w] = st.file_batch]
    /\ file_batch_num' = [file_batch_num EXCEPT ![w] = st.file_batch_num]
    /\ processed' = [processed EXCEPT ![w] = st.processed]
    /\ disk' = st.disk
    /\ writes' = st.writes

Emit(w, printed) == out' = [out EXCEPT ![w] = @ \o printed]

\* One call of get_embeddings_batch: the chunks whose texts it carried, whether
\* it returned, and the number of vectors it returned.
Call(w, kind, batch, ok, m) ==
    calls' = [calls EXCEPT ![w] = Append(@, [kind |-> kind, idx |-> batch,
                                             ok |-> ok, vectors |-> m])]

Fault(w) == faults' = [faults EXCEPT ![w] = @ + 1]

Total(w) == Len(chunks[w])

\* The loop `for i in range(0, total, EMBED_BATCH_SIZE)` moves to its next
\* group, or leaves for the code after it.
NextGroup(w) ==
    /\ i' = [i EXCEPT ![w] = @ + EMBED_BATCH_SIZE]
    /\ j' = [j EXCEPT ![w] = 0]
    /\ pc' = [pc EXCEPT ![w] = "loop"]

\* The progress line printed at the end of the try block.
ProgressLine(st, w) ==
    [kind |-> "progress", processed |-> st.processed, total |-> Total(w),
     file_batch_num |-> st.file_batch_num]

\* main(), after the load: `if not chunks: print("No chunks to process!"); return`,
\* else process_chunks starts with its counters at zero.
Start(w) ==
    /\ pc[w] = "main"
    /\ IF chunks[w] = <<>>
       THEN /\ pc' = [pc EXCEPT ![w] = "exit"]
            /\ Emit(w, <<[kind |-> "nochunks"]>>)
       ELSE /\ pc' = [pc EXCEPT ![w] = "loop"]
            /\ Emit(w, <<[kind |-> "processing"]>>)
    /\ i' = [i EXCEPT ![w] = 0]
    /\ j' = [j EXCEPT ![w] = 0]
    /\ processed' = [processed EXCEPT ![w] = 0]
    /\ failed' = [failed EXCEPT ![w] = 0]
    /\ file_batch' = [file_batch EXCEPT ![w] = <<>>]
    /\ file_batch_num' = [file_batch_num EXCEPT ![w] = 0]
    /\ UNCHANGED <<variant, pod_id, embeddings, chunks, disk, writes, calls, faults, run>>
    /\ UNCHANGED <<planVars, loadVars>>

\* One iteration of the for loop whose group call returns: the try block runs
\* to its end (zip loop with its flushes, then the progress line).
GroupCallOk(w, m) ==
    /\ pc[w] = "loop"
    /\ i[w] < Total(w)
    /\ LET batch == BatchIndices(Total(w), i[w])
           texts == Texts(chunks[w], batch)
       IN  \E st \in {ZipLoop(LocalState(w), w, batch, Response(texts, m), 1)} :
               /\ Commit(w, st)
               /\ Call(w, "group", batch, TRUE, m)
               /\ Emit(w, <<ProgressLine(st, w)>>)
    /\ NextGroup(w)
    /\ UNCHANGED <<variant, pod_id, embeddings, failed, run>>
    /\ UNCHANGED <<planVars, loadVars>>

\* The service honours its contract: one vector per text.
GroupCallFull(w) ==
    /\ pc[w] = "loop"
    /\ i[w] < Total(w)
    /\ GroupCallOk(w, Len(BatchIndices(Total(w), i[w])))
    /\ UNCHANGED faults

\* The call returns, with fewer vectors than texts.
GroupCallShort(w) ==
    /\ pc[w] = "loop"
    /\ i[w] < Total(w)
    /\ faults[w] < MaxFaults
    /\ \E m \in ShortLens(Len(BatchIndices(Total(w), i[w]))) : GroupCallOk(w, m)
    /\ Fault(w)

\* The group call returns a response with m vectors: `embeddings` is bound and
\* the zip loop is about to start.
GroupReturn(w, m) ==
    /\ pc[w] = "loop"
    /\ i[w] < Total(w)
    /\ LET batch == BatchIndices(Total(w), i[w])
       IN  /\ embeddings' =
                 [embeddings EXCEPT ![w] = Response(Texts(chunks[w], batch), m)]
           /\ Call(w, "group", batch, TRUE, m)
    /\ pc' = [pc EXCEPT ![w] = "zip"]
    /\ j' = [j EXCEPT ![w] = 1]
    /\ UNCHANGED <<variant, pod_id, chunks, i, processed, failed, file_batch,
                   file_batch_num, disk, writes, out, run>>
    /\ UNCHANGED <<planVars, loadVars>>

\* The service honours its contract: one vector per text.
GroupReturnFull(w) ==
    /\ pc[w] = "loop"
    /\ i[w] < Total(w)
    /\ GroupReturn(w, Len(BatchIndices(Total(w), i[w])))
    /\ UNCHANGED faults

\* The call returns, with fewer vectors than texts.
GroupReturnShort(w) ==
    /\ pc[w] = "loop"
    /\ i[w] < Total(w)
    /\ faults[w] < MaxFaults
    /\ \E m \in ShortLens(Len(BatchIndices(Total(w), i[w]))) : GroupReturn(w, m)
    /\ Fault(w)

\* One iteration of `for chunk, emb in zip(batch_chunks, embeddings)`, with its
\* flush.
ZipStep(w) ==
    /\ pc[w] = "zip"
    /\ LET batch == BatchIndices(Total(w), i[w])
       IN  /\ j[w] <= Min(Len(batch), Len(embeddings[w]))
           /\ \E st \in {AttachAndAppend(LocalState(w), w, batch[j[w]],
                                         embeddings[w][j[w]])} :
                  Commit(w, st)
    /\ j' = [j EXCEPT ![w] = @ + 1]
    /\ UNCHANGED <<variant, pod_id, embeddings, i, pc, failed, calls, out, faults,
                   run>>
    /\ UNCHANGED <<planVars, loadVars>>

\* zip is exhausted: the progress line, and the for loop moves on.
ZipEnd(w) ==
    /\ pc[w] = "zip"
    /\ j[w] > Min(Len(BatchIndices(Total(w), i[w])), Len(embeddings[w]))
    /\ Emit(w, <<ProgressLine(LocalState(w), w)>>)
    /\ NextGroup(w)
    /\ embeddings' = [embeddings EXCEPT ![w] = <<>>]
    /\ UNCHANGED <<variant, pod_id, chunks, processed, failed, file_batch,
                   file_batch_num, disk, writes, calls, faults, run>>
    /\ UNCHANGED <<planVars, loadVars>>

\* The group call raises (transport error, non-2xx status, timeout, or a
\* response without "embeddings"): `except Exception` prints and the fallback
\* loop starts at the first chunk of the group.
GroupCallFail(w) ==
    /\ pc[w] = "loop"
    /\ i[w] < Total(w)
    /\ faults[w] < MaxFaults
    /\ Call(w, "group", BatchIndices(Total(w), i[w]), FALSE, 0)
    /\ Emit(w, <<[kind |-> "error", at |-> i[w]]>>)
    /\ pc' = [pc EXCEPT ![w] = "fallback"]
    /\ j' = [j EXCEPT ![w] = 1]
    /\ Fault(w)
    /\ UNCHANGED <<variant, pod_id, embeddings, chunks, i, processed, failed, file_batch,
                   file_batch_num, disk, writes, run>>
    /\ UNCHANGED <<planVars, loadVars>>

\* `for chunk in batch_chunks` of the except branch moves on.
NextFallback(w) ==
    IF j[w] < Len(BatchIndices(Total(w), i[w]))
    THEN /\ j' = [j EXCEPT ![w] = @ + 1]
         /\ UNCHANGED <<i, pc>>
    ELSE NextGroup(w)

\* One iteration of the fallback loop whose single-item call returns a vector.
SingleCallOk(w) ==
    /\ pc[w] = "fallback"
    /\ LET batch == BatchIndices(Total(w), i[w])
           k == batch[j[w]]
           emb == Response(<<chunks[w][k].text>>, 1)[1]
       IN  \E st \in {FallbackAppend(LocalState(w), w, k, emb)} :
               /\ Commit(w, st)
               /\ Call(w, "single", <<k>>, TRUE, 1)
    /\ NextFallback(w)
    /\ UNCHANGED <<variant, pod_id, embeddings, failed, out, faults, run>>
    /\ UNCHANGED <<planVars, loadVars>>

\* `failed += 1` exists in embed_via_http.py only.
CountFailed(w) ==
    IF variant = "http"
    THEN failed' = [failed EXCEPT ![w] = @ + 1]
    ELSE UNCHANGED failed

\* Variant of SingleCallFail in which the failed chunk is tried again.
SingleCallFailRetry(w) ==
    /\ pc[w] = "fallback"
    /\ faults[w] < MaxFaults
    /\ LET k == BatchIndices(Total(w), i[w])[j[w]]
       IN  /\ Call(w, "single", <<k>>, FALSE, 0)
           /\ Emit(w, <<[kind |-> "skip", chunk_id |-> chunks[w][k].chunk_id]>>)
    /\ CountFailed(w)
    /\ Fault(w)
    /\ UNCHANGED <<variant, pod_id, embeddings, chunks, i, j, pc, processed, file_batch,
                   file_batch_num, disk, writes, run>>
    /\ UNCHANGED <<planVars, loadVars>>

\* Variant of SingleCallFail in which the exception of the single call leaves
\* process_chunks.
SingleCallFailAbort(w) ==
    /\ pc[w] = "fallback"
    /\ faults[w] < MaxFaults
    /\ LET k == BatchIndices(Total(w), i[w])[j[w]]
       IN  Call(w, "single", <<k>>, FALSE, 0)
    /\ pc' = [pc EXCEPT ![w] = "aborted"]
    /\ Fault(w)
    /\ UNCHANGED <<variant, pod_id, embeddings, chunks, i, j, processed, failed, file_batch,
                   file_batch_num, disk, writes, out, run>>
    /\ UNCHANGED <<planVars, loadVars>>

\* One iteration of the fallback loop whose single-item call raises (or returns
\* no vector, so that [0] raises): `except Exception as e2` prints the skip.
SingleCallFail(w) ==
    /\ pc[w] = "fallback"
    /\ faults[w] < MaxFaults
    /\ LET k == BatchIndices(Total(w), i[w])[j[w]]
       IN  /\ Call(w, "single", <<k>>, FALSE, 0)
           /\ Emit(w, <<[kind |-> "skip", chunk_id |-> chunks[w][k].chunk_id]>>)
    /\ CountFailed(w)
    /\ NextFallback(w)
    /\ Fault(w)
    /\ UNCHANGED <<variant, pod_id, embeddings, chunks, processed, file_batch, file_batch_num,
                   disk, writes, run>>
    /\ UNCHANGED <<planVars, loadVars>>

\* `chunk["embedding"] = emb; file_batch.append(chunk); processed += 1`: the
\* statements before the test of the accumulator.
Attach(st, k, emb) ==
    [st EXCEPT !.chunks[k] = SetEmbedding(@, emb),
               !.file_batch = Append(@, k),
               !.processed = @ + 1]

\* An iteration of the zip loop that fills the accumulator, and save_batch
\* raises (open or json.dump fails: the directory is gone, the disk is full):
\* file_batch_num is not incremented and file_batch is not emptied, and the
\* exception is caught by the `except Exception` of the group, which prints
\* and starts the fallback loop at the first chunk of the group.  The file is
\* taken as not written.
ZipStepWriteFail(w) ==
    /\ pc[w] = "zip"
    /\ faults[w] < MaxFaults
    /\ LET batch == BatchIndices(Total(w), i[w])
       IN  /\ j[w] <= Min(Len(batch), Len(embeddings[w]))
           /\ \E st \in {Attach(LocalState(w), batch[j[w]], embeddings[w][j[w]])} :
                  /\ Len(st.file_batch) >= FILE_BATCH_SIZE
                  /\ Commit(w, st)
    /\ Emit(w, <<[kind |-> "error", at |-> i[w]]>>)
    /\ pc' = [pc EXCEPT ![w] = "fallback"]
    /\ j' = [j EXCEPT ![w] = 1]
    /\ embeddings' = [embeddings EXCEPT ![w] = <<>>]
    /\ Fault(w)
    /\ UNCHANGED <<variant, pod_id, i, failed, calls, run>>
    /\ UNCHANGED <<planVars, loadVars>>

\* An iteration of the fallback loop whose single-item call returns and whose
\* save_batch raises: the chunk is attached, appended and counted, and the
\* exception is caught by `except Exception as e2`, which prints the skip.
SingleCallWriteFail(w) ==
    /\ pc[w] = "fallback"
    /\ faults[w] < MaxFaults
    /\ LET batch == BatchIndices(Total(w), i[w])
           k == batch[j[w]]
           emb == Response(<<chunks[w][k].text>>, 1)[1]
       IN  \E st \in {Attach(LocalState(w), k, emb)} :
               /\ Len(st.file_batch) >= FILE_BATCH_SIZE
               /\ Commit(w, st)
               /\ Call(w, "single", <<k>>, TRUE, 1)
               /\ Emit(w, <<[kind |-> "skip", chunk_id |-> chunks[w][k].chunk_id]>>)
    /\ CountFailed(w)
    /\ NextFallback(w)
    /\ Fault(w)
    /\ UNCHANGED <<variant, pod_id, embeddings, run>>
    /\ UNCHANGED <<planVars, loadVars>>

\* The save_batch after the loop raises: nothing catches it, and
\* process_chunks ends without its summary.
FinishWriteFail(w) ==
    /\ pc[w] = "loop"
    /\ i[w] >= Total(w)
    /\ faults[w] < MaxFaults
    /\ file_batch[w] # <<>>
    /\ pc' = [pc EXCEPT ![w] = "crashed"]
    /\ Fault(w)
    /\ UNCHANGED <<variant, pod_id, embeddings, chunks, i, j, processed, failed,
                   file_batch, file_batch_num, disk, writes, calls, out, run>>
    /\ UNCHANGED <<planVars, loadVars>>

\* The lines process_chunks prints after the last flush.
Summary(st, w) ==
    <<[kind |-> "done", processed |-> st.processed, files |-> st.file_batch_num]>>
    \o (IF variant = "http" /\ failed[w] > 0
        THEN <<[kind |-> "warning", failed |-> failed[w]]>>
        ELSE <<>>)

\* Variant of FinalFlush that leaves the rest of the accumulator unwritten.
FinalFlushNever(st, w) == st

\* `if file_batch: save_batch(...); file_batch_num += 1` (the accumulator is
\* not emptied afterwards).
FinalFlush(st, w) ==
    IF st.file_batch # <<>>
    THEN [save_batch(st, w) EXCEPT !.file_batch_num = @ + 1]
    ELSE st

\* After the loop: the last flush, then the summary.
Finish(w) ==
    /\ pc[w] = "loop"
    /\ i[w] >= Total(w)
    /\ \E st \in {FinalFlush(LocalState(w), w)} :
           /\ Commit(w, st)
           /\ Emit(w, Summary(st, w))
    /\ pc' = [pc EXCEPT ![w] = "done"]
    /\ UNCHANGED <<variant, pod_id, embeddings, i, j, failed, calls, faults, run>>
    /\ UNCHANGED <<planVars, loadVars>>

\* ------------------------------------------------------------ one worker, one run
\* The window of n chunks after the first `first` chunks of the input.
Window(first, n) == [k \in 1..n |-> MakeChunk(first + k)]

WindowSizes == (0..MaxSmall) \cup {FILE_BATCH_SIZE + MaxOver}

\* No plan is being printed.
PlanIdle ==
    /\ total_chunks = 0
    /\ indexable_chunks = 0
    /\ n_pods = 0
    /\ p = 0
    /\ plan = <<>>

\* No file is being loaded.
LoadIdle ==
    /\ lines = <<>>
    /\ offset = 0
    /\ count = <<>>
    /\ pos = 0
    /\ loaded = <<>>
    /\ skipped = 0
    /\ lpc = "off"

\* The workers before main() has run, with their windows.
ProcInit ==
    /\ i = [w \in Workers |-> 0]
    /\ j = [w \in Workers |-> 0]
    /\ processed = [w \in Workers |-> 0]
    /\ failed = [w \in Workers |-> 0]
    /\ file_batch = [w \in Workers |-> <<>>]
    /\ file_batch_num = [w \in Workers |-> 0]
    /\ disk = <<>>
    /\ writes = <<>>
    /\ calls = [w \in Workers |-> <<>>]
    /\ out = [w \in Workers |-> <<>>]
    /\ faults = [w \in Workers |-> 0]
    /\ run = [w \in Workers |-> 0]
    /\ embeddings = [w \in Workers |-> <<>>]

\* One worker about to process a window of one of the sizes; the other worker
\* is not started.  File writes succeed; the calls of the embedding service
\* fail or answer short as the environment chooses.
InitOneWorker(sizes) ==
    /\ variant \in Variants
    /\ pod_id = [w \in Workers |-> 0]
    /\ \E n \in sizes :
          chunks = [w \in Workers |-> IF w = NoWorker THEN <<>> ELSE Window(0, n)]
    /\ pc = [w \in Workers |-> IF w = NoWorker THEN "off" ELSE "main"]
    /\ ProcInit
    /\ PlanIdle
    /\ LoadIdle

Init == InitOneWorker(WindowSizes)

ProcStep(w) ==
    \/ Start(w)
    \/ GroupCallFull(w)
    \/ GroupCallShort(w)
    \/ GroupCallFail(w)
    \/ SingleCallOk(w)
    \/ SingleCallFail(w)
    \/ Finish(w)

Next == \E w \in Workers : ProcStep(w)

Spec == Init /\ [][Next]_vars

\* The process keeps running: every call returns, raises or times out, and no
\* step of process_chunks waits for anything else.
FairWindowSizes == (0..MaxSmall) \cup {EMBED_BATCH_SIZE + MaxOver}

InitFair == InitOneWorker(FairWindowSizes)

SpecFair == InitFair /\ [][Next]_vars /\ WF_vars(Next)

\* ------------------------------------------------------------ the zip loop pair by pair
\* process_chunks with every iteration of its loops a step of its own.
StepChunk(w) ==
    \/ Start(w)
    \/ GroupReturnFull(w)
    \/ GroupReturnShort(w)
    \/ ZipStep(w)
    \/ ZipEnd(w)
    \/ GroupCallFail(w)
    \/ SingleCallOk(w)
    \/ SingleCallFail(w)
    \/ Finish(w)

NextStep == \E w \in Workers : StepChunk(w)

SpecStep == Init /\ [][NextStep]_vars

\* ------------------------------------------------------------ file writes that fail
\* process_chunks pair by pair, in an environment in which save_batch may
\* raise as well.
StepWrite(w) ==
    \/ StepChunk(w)
    \/ ZipStepWriteFail(w)
    \/ SingleCallWriteFail(w)
    \/ FinishWriteFail(w)

NextWrite == \E w \in Workers : StepWrite(w)

SpecWrite == Init /\ [][NextWrite]_vars

\* ------------------------------------------------------------ the run in which nothing fails
\* One worker on a window of 0..MaxClean chunks; every embedding call returns
\* one vector per text and every file write succeeds.
InitClean == InitOneWorker(0..MaxClean)

NextClean ==
    \/ Start(MainWorker)
    \/ GroupCallFull(MainWorker)
    \/ Finish(MainWorker)

SpecClean == InitClean /\ [][NextClean]_vars

\* ------------------------------------------------------------ two workers, one output directory
\* The worker is run again, with an offset that skips the window it has
\* completed: a new process, with the next window.
Restart(w) ==
    /\ pc[w] = "done"
    /\ run[w] < MaxRestarts
    /\ run' = [run EXCEPT ![w] = @ + 1]
    /\ \E n \in 1..MaxSmall :
          chunks' = [chunks EXCEPT
                        ![w] = Window(chunks[w][Len(chunks[w])].chunk_id, n)]
    /\ pc' = [pc EXCEPT ![w] = "main"]
    /\ calls' = [calls EXCEPT ![w] = <<>>]
    /\ out' = [out EXCEPT ![w] = <<>>]
    /\ UNCHANGED <<variant, pod_id, embeddings, i, j, processed, failed, file_batch,
                   file_batch_num, disk, writes, faults>>
    /\ UNCHANGED <<planVars, loadVars>>

\* --pod-id of the workers (embed_via_http.py has no such argument).
PodIds == [A |-> 0, B |-> 1]

\* Two workers of the same script, with different --pod-id, on different slices
\* of the input, writing to the same output directory.
InitDir ==
    /\ variant \in Variants
    /\ pod_id = [w \in Workers |-> PodIds[w]]
    /\ \E a \in 1..MaxSmall, b \in 1..MaxSmall :
          chunks = [w \in Workers |-> IF w = "A" THEN Window(0, a)
                                       ELSE Window(MaxSmall * (MaxRestarts + 1), b)]
    /\ pc = [w \in Workers |-> "main"]
    /\ ProcInit
    /\ PlanIdle
    /\ LoadIdle

NextDir ==
    \E w \in Workers :
        \/ ProcStep(w)
        \/ Restart(w)

SpecDir == InitDir /\ [][NextDir]_vars

\* ------------------------------------------------------------ the plan of --stats
ProcIdle ==
    /\ variant = "v1"
    /\ pod_id = [w \in Workers |-> 0]
    /\ chunks = [w \in Workers |-> <<>>]
    /\ pc = [w \in Workers |-> "off"]
    /\ ProcInit

\* The script prints the plan for n_pods in [2, 3, 4, 5, 7]; the same loop body
\* is run here for every n_pods in 1..MaxPods.
InitPlan ==
    /\ total_chunks \in 0..MaxTotal
    /\ indexable_chunks = 0
    /\ n_pods \in 1..MaxPods
    /\ p = 0
    /\ plan = <<>>
    /\ ProcIdle
    /\ LoadIdle

NextPlan == PlanPod

SpecPlan == InitPlan /\ [][NextPlan]_vars

\* ------------------------------------------------------------ the load of embed_chunks_v2.py
Flags == {"true", "false", "absent"}

\* The input files: records 1..n, each with one of the flags.
Files ==
    UNION {{[k \in 1..n |-> MakeRecord(k, f[k])] : f \in [1..n -> Flags]} :
              n \in 0..MaxLines}

\* The scripts that filter: embed_chunks_v2.py counts and then loads its
\* window; embed_via_http.py loads the whole file.
InitLoad ==
    /\ variant \in {"v2", "http"}
    /\ lines \in Files
    /\ offset \in (IF variant = "http" THEN {0} ELSE 0..MaxOffset)
    /\ count \in (IF variant = "http" THEN {<<>>}
                  ELSE {<<>>} \cup {<<n>> : n \in 0..MaxCount})
    /\ pos = 0
    /\ loaded = <<>>
    /\ skipped = 0
    /\ lpc = IF variant = "http" THEN "reading" ELSE "count"
    /\ (pod_id = [w \in Workers |-> 0]
        /\ chunks = [w \in Workers |-> <<>>] /\ pc = [w \in Workers |-> "off"])
    /\ ProcInit
    /\ PlanIdle

NextLoad ==
    \/ CountLine
    \/ CountReturn
    \/ LoadLine
    \/ LoadLineHttp
    \/ LoadReturn

SpecLoad == InitLoad /\ [][NextLoad]_vars

\* ------------------------------------------------------------ main(): count, load, process
\* main() after the load: the list goes to `if not chunks` and process_chunks.
Loaded ==
    /\ lpc = "returned"
    /\ lpc' = "handed"
    /\ chunks' = [chunks EXCEPT ![MainWorker] = loaded]
    /\ pc' = [pc EXCEPT ![MainWorker] = "main"]
    /\ UNCHANGED <<variant, pod_id, i, j, processed, failed, file_batch,
                   file_batch_num, disk, writes, calls, out, faults, run,
                   embeddings>>
    /\ UNCHANGED <<lines, offset, count, pos, loaded, skipped>>
    /\ UNCHANGED planVars

\* Line k of an input file: a usable record, a non-usable one, or not JSON.
MainLine(k, kind) ==
    IF kind = "malformed" THEN Malformed ELSE MakeRecord(k, kind)

\* The input files of main(): up to MaxLines lines, at most one of them
\* malformed.
MainFiles ==
    UNION {{[k \in 1..n |-> MainLine(k, f[k])] :
               f \in {g \in [1..n -> {"absent", "false", "malformed"}] :
                          Cardinality({k \in 1..n : g[k] = "malformed"}) <= 1}} :
              n \in 0..MaxLines}

\* main() of one of the scripts, on one of the files, from its first statement
\* after the arguments are parsed (embed_via_http.py: after the connection test
\* passed; it has no --offset and no --count, and no count_chunks).  Every
\* embedding call returns one vector per text and every file write succeeds.
InitMain ==
    /\ variant \in Variants
    /\ lines \in MainFiles
    /\ offset \in (IF variant = "http" THEN {0} ELSE 0..MaxOffset)
    /\ count \in (IF variant = "http" THEN {<<>>}
                  ELSE {<<>>} \cup {<<n>> : n \in 0..MaxCount})
    /\ pos = 0
    /\ loaded = <<>>
    /\ skipped = 0
    /\ lpc = IF variant = "http" THEN "reading" ELSE "count"
    /\ pod_id = [w \in Workers |-> 0]
    /\ chunks = [w \in Workers |-> <<>>]
    /\ pc = [w \in Workers |-> "off"]
    /\ ProcInit
    /\ PlanIdle

NextMain ==
    \/ CountLine
    \/ CountReturn
    \/ LoadLineV1
    \/ LoadLine
    \/ LoadLineHttp
    \/ LoadReturn
    \/ Loaded
    \/ Start(MainWorker)
    \/ GroupCallFull(MainWorker)
    \/ Finish(MainWorker)

SpecMain == InitMain /\ [][NextMain]_vars

\* ------------------------------------------------------------ the run in which every group call returns
\* The chunk as it was loaded.
Original(c) == [f \in DOMAIN c \ {"embedding"} |-> c[f]]

InputOf(w) == [k \in 1..Len(chunks[w]) |-> Original(chunks[w][k])]

RECURSIVE AllGroupsOk(_, _, _)
\* process_chunks from group `lo` on when every group call returns one vector
\* per text.
AllGroupsOk(st, w, lo) ==
    IF lo >= Len(st.chunks) THEN FinalFlush(st, w)
    ELSE LET batch == BatchIndices(Len(st.chunks), lo)
             embs == Response(Texts(st.chunks, batch), Len(batch))
         IN  AllGroupsOk(ZipLoop(st, w, batch, embs, 1), w,
                         lo + EMBED_BATCH_SIZE)

ReferenceRun(w) ==
    AllGroupsOk([chunks |-> InputOf(w), file_batch |-> <<>>, file_batch_num |-> 0,
                 processed |-> 0, disk |-> <<>>, writes |-> <<>>], w, 0)

\* ------------------------------------------------------------ properties of one run
Finished(w) == pc[w] = "done"

CallsWith(w, kind, k) ==
    {n \in DOMAIN calls[w] :
        /\ calls[w][n].kind = kind
        /\ \E m \in DOMAIN calls[w][n].idx : calls[w][n].idx[m] = k}

FailedSingles(w) ==
    {n \in DOMAIN calls[w] : calls[w][n].kind = "single" /\ ~calls[w][n].ok}

FailedGroups(w) ==
    {n \in DOMAIN calls[w] : calls[w][n].kind = "group" /\ ~calls[w][n].ok}

\* Every response that came back carried one vector per text.
AllResponsesFull(w) ==
    \A n \in DOMAIN calls[w] :
        calls[w][n].ok => calls[w][n].vectors = Len(calls[w][n].idx)

\* The chunks (as indices of the window) whose single call failed.
SkippedChunks(w) == {calls[w][n].idx[1] : n \in FailedSingles(w)}

\* The chunk identifiers found in the files of the output directory.
IdsOnDisk ==
    UNION {{disk[fp][n].chunk_id : n \in DOMAIN disk[fp]} : fp \in DOMAIN disk}

\* ------------------------------------------------------------ the filtered load
\* The usable records of the file, in file order.
Usable == SelectSeq(lines, IsIndexable)

\* Positions offset .. offset+count-1 of the usable records (to the end
\* without a count).
UsableWindow ==
    LET hi == IF count = <<>> THEN Len(Usable)
              ELSE Min(Len(Usable), offset + count[1])
    IN  SubSeq(Usable, offset + 1, hi)

\* C1: load_indexable_chunks(path, offset, count) of embed_chunks_v2.py returns
\* the usable records at positions offset .. offset+count-1 of the sequence
\* of usable records, in file order.
C1_LoadsWindowOfUsable == lpc = "returned" => loaded = UsableWindow

\* Some line of the input file is not a well-formed record.
HasMalformedLine == \E k \in DOMAIN lines : ~Parses(lines[k])

\* C11: when a line of the input file is malformed, wherever it is, the run
\* issues no embedding call and writes no output file.
C11_MalformedAborts ==
    HasMalformedLine => (\A w \in Workers : calls[w] = <<>>) /\ writes = <<>>

\* The part of C11 for the scripts that parse every line.
C11_MalformedAbortsParsed ==
    (HasMalformedLine /\ variant # "v1") =>
        /\ \A w \in Workers : calls[w] = <<>>
        /\ writes = <<>>
        /\ lpc \notin {"returned", "handed"}

\* main() has ended with nothing to process: "No chunks to process!".
EndedEmpty(w) ==
    /\ pc[w] = "exit"
    /\ calls[w] = <<>>
    /\ writes = <<>>

\* C21: a run whose input has no record, or whose window selects no chunk,
\* raises no error (no division by zero in the counting and statistics), issues
\* no embedding call and writes no file.
C21_EmptyRunEndsNormally ==
    /\ ~HasMalformedLine => lpc # "raised"
    /\ (lpc = "handed" /\ loaded = <<>>) =>
          /\ pc[MainWorker] \in {"main", "exit"}
          /\ calls[MainWorker] = <<>>
          /\ writes = <<>>

\* The part of C21 for the inputs that have a record: a window that selects
\* no chunk ends the run without a call, a file or an error.
C21_EmptyWindowEndsNormally ==
    /\ (~HasMalformedLine /\ (variant # "v2" \/ lines # <<>>)) => lpc # "raised"
    /\ (lpc = "handed" /\ loaded = <<>>) =>
          /\ pc[MainWorker] \in {"main", "exit"}
          /\ calls[MainWorker] = <<>>
          /\ writes = <<>>

\* A run of embed_chunks_v2.py on a file with records whose window selected
\* none of them, ended.
EmptyWindowEnded ==
    variant = "v2" /\ lines # <<>> /\ lpc = "handed" /\ EndedEmpty(MainWorker)

\* The records of the file whose flag is true or absent, in file order.
FlagTrueOrAbsent ==
    SelectSeq(lines, LAMBDA r : "is_indexable" \notin DOMAIN r \/ r.is_indexable)

\* The load was asked for without a window.
NoWindow == offset = 0 /\ count = <<>>

\* C14: the filtered load without a window returns the records whose flag is
\* true or absent, in file order, with skipped the number of the others; and
\* count_chunks returns the number of lines and the length of that list.
C14_FilteredLoad ==
    /\ (variant = "v2" /\ lpc \in {"reading", "returned"}) =>
          /\ total_chunks = Len(lines)
          /\ indexable_chunks = Len(FlagTrueOrAbsent)
    /\ (lpc = "returned" /\ NoWindow) =>
          /\ loaded = FlagTrueOrAbsent
          /\ skipped = Len(lines) - Len(loaded)
          /\ variant = "v2" =>
                /\ indexable_chunks = Len(loaded)
                /\ total_chunks - indexable_chunks = skipped

\* A load without a window that returned from a file with records of the
\* three kinds.
C14_Witness ==
    /\ lpc = "returned"
    /\ NoWindow
    /\ variant = "v2"
    /\ \E a \in DOMAIN lines, b \in DOMAIN lines, c \in DOMAIN lines :
          /\ "is_indexable" \notin DOMAIN lines[a]
          /\ "is_indexable" \in DOMAIN lines[b] /\ lines[b].is_indexable
          /\ "is_indexable" \in DOMAIN lines[c] /\ ~lines[c].is_indexable

\* ------------------------------------------------------------ the plan
RECURSIVE SumCounts(_)
SumCounts(ws) == IF ws = <<>> THEN 0 ELSE ws[1].count + SumCounts(Tail(ws))

\* The windows of the plan that hold position x.
WindowsWith(x) ==
    {k \in DOMAIN plan : plan[k].offset <= x /\ x < plan[k].offset + plan[k].count}

\* C2: the windows printed for n workers start at 0, each starts where the
\* previous one ends, and the complete plan has counts that sum to the total,
\* with every position 0..total-1 in exactly one window.
C2_PlanCovers ==
    /\ \A k \in DOMAIN plan :
          /\ plan[k].count >= 0
          /\ plan[k].offset = IF k = 1 THEN 0 ELSE plan[k - 1].offset + plan[k - 1].count
    /\ p = n_pods =>
          /\ Len(plan) = n_pods
          /\ SumCounts(plan) = total_chunks
          /\ \A x \in 0..(total_chunks - 1) : Cardinality(WindowsWith(x)) = 1

\* A complete plan for several workers whose total leaves a remainder.
C2_Witness ==
    /\ n_pods >= 2
    /\ p = n_pods
    /\ total_chunks > n_pods
    /\ total_chunks % n_pods # 0

\* ------------------------------------------------------------ the output directory
\* C5: no output file path is written by two workers.
C5_NoPathOfTwoWorkers ==
    \A n \in DOMAIN writes : \A m \in DOMAIN writes :
        writes[n].worker # writes[m].worker => writes[n].path # writes[m].path

\* C8: a worker writes no file path twice, within one run or across its
\* restarts.
C8_WrittenOnce ==
    \A n \in DOMAIN writes : \A m \in DOMAIN writes :
        (n # m /\ writes[n].worker = writes[m].worker)
            => writes[n].path # writes[m].path

\* The part of C8 within one run.
C8_WrittenOncePerRun ==
    \A n \in DOMAIN writes : \A m \in DOMAIN writes :
        (n # m /\ writes[n].worker = writes[m].worker /\ writes[n].run = writes[m].run)
            => writes[n].path # writes[m].path

\* ------------------------------------------------------------ failures of calls
\* C3: when every single-item call of the failed groups returns the vector the
\* group call would have returned, the finished run has written the same files
\* with the same contents in the same order, and counted the same number of
\* processed chunks, as the run in which every group call returned.
C3_FallbackSameOutput ==
    \A w \in Workers :
        (Finished(w) /\ FailedSingles(w) = {} /\ AllResponsesFull(w)) =>
            LET ref == ReferenceRun(w)
            IN  /\ disk = ref.disk
                /\ writes = ref.writes
                /\ processed[w] = ref.processed
                /\ file_batch_num[w] = ref.file_batch_num

\* A finished run with a failed group whose fallback filled the first file.
C3_Witness ==
    \E w \in Workers :
        /\ Finished(w) /\ FailedSingles(w) = {} /\ AllResponsesFull(w)
        /\ CallsWith(w, "group", FILE_BATCH_SIZE) \cap FailedGroups(w) # {}
        /\ Len(writes) = 2

\* C4: a chunk whose group call and single-item call both failed is in no
\* output file and not in the accumulator, is not counted as processed, and is
\* counted exactly once by the skipped/failed counter.
C4_SkippedChunkCounted ==
    \A w \in Workers :
        /\ failed[w] = Cardinality(FailedSingles(w))
        /\ \A k \in SkippedChunks(w) :
              /\ chunks[w][k].chunk_id \notin IdsOnDisk
              /\ \A n \in DOMAIN file_batch[w] : file_batch[w][n] # k
        /\ processed[w] =
              Cardinality({k \in DOMAIN chunks[w] : "embedding" \in DOMAIN chunks[w][k]})

\* The part of C4 that does not depend on the counter.
C4_SkippedChunkLeftOut ==
    \A w \in Workers :
        /\ \A k \in SkippedChunks(w) :
              /\ chunks[w][k].chunk_id \notin IdsOnDisk
              /\ \A n \in DOMAIN file_batch[w] : file_batch[w][n] # k
              /\ "embedding" \notin DOMAIN chunks[w][k]
        /\ processed[w] =
              Cardinality({k \in DOMAIN chunks[w] : "embedding" \in DOMAIN chunks[w][k]})

\* C6: every file written holds between 1 and FILE_BATCH_SIZE chunks, and every
\* file of a run but the one with the highest sequence number holds exactly
\* FILE_BATCH_SIZE.
C6_FileSizes ==
    \A n \in DOMAIN writes :
        /\ writes[n].size >= 1
        /\ writes[n].size <= FILE_BATCH_SIZE
        /\ Len(disk[writes[n].path]) = writes[n].size
        /\ (\E m \in DOMAIN writes :
               /\ writes[m].worker = writes[n].worker
               /\ writes[m].run = writes[n].run
               /\ writes[m].batch_num > writes[n].batch_num)
           => writes[n].size = FILE_BATCH_SIZE

\* A finished run with faults that wrote a full file and then a smaller one.
C6_Witness ==
    \E w \in Workers :
        /\ Finished(w) /\ faults[w] > 0
        /\ Len(writes) = 2
        /\ writes[1].size = FILE_BATCH_SIZE
        /\ writes[2].size < FILE_BATCH_SIZE

\* The chunks (as indices of the window) whose texts a call carried.
Carried(c) == {c.idx[x] : x \in DOMAIN c.idx}

\* C7: a chunk is in at most one group call and at most one single-item call,
\* and its single-item call comes after its group call failed; so the text of a
\* chunk is submitted at most twice, and a chunk whose single-item call failed
\* is in no later call.
C7_AtMostTwoCalls ==
    \A w \in Workers : \A n \in DOMAIN calls[w] :
        LET c == calls[w][n]
        IN  /\ \A m \in 1..(n - 1) :
                  calls[w][m].kind = c.kind => Carried(calls[w][m]) \cap Carried(c) = {}
            /\ c.kind = "single" =>
                  /\ Len(c.idx) = 1
                  /\ \E g \in 1..(n - 1) :
                        /\ calls[w][g].kind = "group"
                        /\ ~calls[w][g].ok
                        /\ c.idx[1] \in Carried(calls[w][g])
            /\ c.kind = "group" =>
                  \A m \in 1..(n - 1) :
                      (calls[w][m].kind = "single" /\ ~calls[w][m].ok)
                          => calls[w][m].idx[1] \notin Carried(c)

\* A finished run in which a single-item call failed and calls followed.
C7_Witness ==
    \E w \in Workers :
        /\ Finished(w)
        /\ \E n \in FailedSingles(w) : n < Len(calls[w])

\* C9: the summary of a finished run reports the processed count and the file
\* count, and when chunks of the input were not embedded a warning reports
\* how many.
C9_LossReported ==
    \A w \in Workers :
        Finished(w) =>
            /\ \E n \in DOMAIN out[w] :
                  /\ out[w][n].kind = "done"
                  /\ out[w][n].processed = processed[w]
                  /\ out[w][n].files = file_batch_num[w]
            /\ Total(w) - processed[w] > 0 =>
                  \E n \in DOMAIN out[w] :
                      /\ out[w][n].kind = "warning"
                      /\ out[w][n].failed = Total(w) - processed[w]

\* ------------------------------------------------------------ what is written
\* The objects in the files of the output directory.
Written == UNION {{disk[fp][n] : n \in DOMAIN disk[fp]} : fp \in DOMAIN disk}

\* C12: every object in an output file is the input chunk of the same
\* identifier with exactly the field `embedding` added, holding the vector the
\* service returns for the text of that chunk; and a chunk whose single-item
\* call failed has no `embedding` field.
C12_OnlyEmbeddingAdded ==
    /\ \A c \in Written :
          /\ DOMAIN c = DOMAIN MakeChunk(0) \cup {"embedding"}
          /\ \E w \in Workers :
                /\ c.chunk_id \in DOMAIN chunks[w]
                /\ Original(c) = Window(0, Total(w))[c.chunk_id]
          /\ c.embedding = Embed(c.text)
    /\ \A w \in Workers : \A k \in SkippedChunks(w) :
          chunks[w][k] = Window(0, Total(w))[k]

\* A finished run that wrote chunks of several groups and skipped a chunk.
C12_Witness ==
    \E w \in Workers :
        /\ Finished(w)
        /\ SkippedChunks(w) # {}
        /\ Cardinality(Written) > EMBED_BATCH_SIZE

\* The writes of the current run of worker w, in the order they happened.
WritesOf(w) == SelectSeq(writes, LAMBDA x : x.worker = w /\ x.run = run[w])

RECURSIVE FilesConcat(_)
\* The contents of the files of these writes, one after the other.
FilesConcat(ws) ==
    IF ws = <<>> THEN <<>> ELSE disk[ws[1].path] \o FilesConcat(Tail(ws))

\* The position in the window of worker w of the chunk an object came from
\* (the identifiers of a window are consecutive).
PositionOf(w, c) == c.chunk_id - chunks[w][1].chunk_id + 1

\* C13: the n-th file a run writes has sequence number n - 1, and the objects of
\* its files, read in sequence-number order, come from strictly increasing
\* positions of the window.
C13_FilesInOrder ==
    \A w \in Workers :
        LET ws == WritesOf(w)
            cs == FilesConcat(ws)
        IN  /\ \A n \in DOMAIN ws : ws[n].batch_num = n - 1
            /\ \A n \in DOMAIN cs :
                  /\ PositionOf(w, cs[n]) \in DOMAIN chunks[w]
                  /\ Original(cs[n]) = Original(chunks[w][PositionOf(w, cs[n])])
                  /\ n > 1 => PositionOf(w, cs[n - 1]) < PositionOf(w, cs[n])

\* A finished run that wrote two files and had two of its group calls fail.
C13_Witness ==
    \E w \in Workers :
        /\ Finished(w)
        /\ Len(WritesOf(w)) = 2
        /\ Cardinality(FailedGroups(w)) = 2

\* ------------------------------------------------------------ a group call that returns
\* Chunk k of the window has its vector and is in the accumulator or in a file.
Embedded(w, k) ==
    /\ "embedding" \in DOMAIN chunks[w][k]
    /\ \/ \E n \in DOMAIN file_batch[w] : file_batch[w][n] = k
       \/ chunks[w][k].chunk_id \in IdsOnDisk

RECURSIVE TextsAnswered(_)
\* The number of texts carried by the calls of the log that returned.
TextsAnswered(cs) ==
    IF cs = <<>> THEN 0
    ELSE (IF cs[1].ok THEN Len(cs[1].idx) ELSE 0) + TextsAnswered(Tail(cs))

\* C15: after a group call that returned, whatever the response, every chunk
\* of the group has its vector and is in the accumulator or in a file, and
\* processed has advanced by the size of the group.
C15_GroupFullyProcessed ==
    \A w \in Workers :
        /\ \A n \in DOMAIN calls[w] :
              (calls[w][n].kind = "group" /\ calls[w][n].ok) =>
                  \A k \in Carried(calls[w][n]) : Embedded(w, k)
        /\ processed[w] = TextsAnswered(calls[w])

\* The part of C15 for the responses that carry one vector per text.
C15_FullResponseProcessed ==
    \A w \in Workers :
        /\ \A n \in DOMAIN calls[w] :
              (/\ calls[w][n].kind = "group"
               /\ calls[w][n].ok
               /\ calls[w][n].vectors = Len(calls[w][n].idx)) =>
                  \A k \in Carried(calls[w][n]) : Embedded(w, k)
        /\ AllResponsesFull(w) => processed[w] = TextsAnswered(calls[w])

\* ------------------------------------------------------------ the run in which nothing fails
Ceil(a, b) == (a + b - 1) \div b

\* main() has returned: with nothing to process, or after process_chunks.
Returned(w) == pc[w] \in {"exit", "done"}

\* C16: when every call returns one vector per text, the run over a window of N
\* chunks makes ceil(N / EMBED_BATCH_SIZE) calls, all of them group calls,
\* writes ceil(N / FILE_BATCH_SIZE) files, each but the last of FILE_BATCH_SIZE
\* chunks and the last with the rest, and ends with processed = N and no chunk
\* skipped.
C16_CleanRunCounts ==
    \A w \in Workers :
        Returned(w) =>
            LET N == Total(w)
                ws == WritesOf(w)
            IN  /\ Len(calls[w]) = Ceil(N, EMBED_BATCH_SIZE)
                /\ \A n \in DOMAIN calls[w] :
                      calls[w][n].kind = "group" /\ calls[w][n].ok
                /\ Len(ws) = Ceil(N, FILE_BATCH_SIZE)
                /\ file_batch_num[w] = Ceil(N, FILE_BATCH_SIZE)
                /\ \A n \in DOMAIN ws :
                      /\ ws[n].size = IF n < Len(ws) THEN FILE_BATCH_SIZE
                                      ELSE N - FILE_BATCH_SIZE * (n - 1)
                      /\ Len(disk[ws[n].path]) = ws[n].size
                /\ processed[w] = N
                /\ failed[w] = 0
                /\ \A n \in DOMAIN out[w] : out[w][n].kind \notin {"skip", "warning"}

\* The finished run over 130 chunks: 6 calls, files of 100 and 30 chunks.
C16_Witness ==
    \E w \in Workers :
        /\ Finished(w)
        /\ Total(w) = 130
        /\ Len(calls[w]) = 6
        /\ Len(writes) = 2
        /\ writes[1].size = 100
        /\ writes[2].size = 30
        /\ processed[w] = 130

\* ------------------------------------------------------------ the groups
\* The group calls of worker w, in the order they were made.
GroupCalls(w) == SelectSeq(calls[w], LAMBDA c : c.kind = "group")

\* C17: the n-th group call carries the chunks at window positions
\* 25(n-1)+1 .. min(25n, total), so between 1 and EMBED_BATCH_SIZE texts,
\* exactly EMBED_BATCH_SIZE unless it is the last group of the window; a
\* finished run has made a group call for every chunk of the window; and every
\* single-item call carries one text.
C17_GroupsAreSlices ==
    \A w \in Workers :
        LET gs == GroupCalls(w)
        IN  /\ \A n \in DOMAIN gs :
                  LET idx == gs[n].idx
                  IN  /\ Len(idx) >= 1
                      /\ Len(idx) <= EMBED_BATCH_SIZE
                      /\ idx[1] = EMBED_BATCH_SIZE * (n - 1) + 1
                      /\ \A x \in 2..Len(idx) : idx[x] = idx[x - 1] + 1
                      /\ idx[Len(idx)] <= Total(w)
                      /\ idx[Len(idx)] < Total(w) => Len(idx) = EMBED_BATCH_SIZE
            /\ Finished(w) => /\ gs # <<>>
                               /\ gs[Len(gs)].idx[Len(gs[Len(gs)].idx)] = Total(w)
            /\ \A n \in DOMAIN calls[w] :
                  calls[w][n].kind = "single" => Len(calls[w][n].idx) = 1

\* A finished run over several groups, the last one smaller, with single-item
\* calls after a failed group call.
C17_Witness ==
    \E w \in Workers :
        /\ Finished(w)
        /\ Len(GroupCalls(w)) > 2
        /\ Total(w) % EMBED_BATCH_SIZE # 0
        /\ \E n \in DOMAIN calls[w] : calls[w][n].kind = "single"

\* ------------------------------------------------------------ the progress report
\* The progress lines worker w has printed.
ProgressLines(w) == SelectSeq(out[w], LAMBDA l : l.kind = "progress")

\* Worker w is between two groups, or through with the last one.
BetweenGroups(w) == pc[w] \in {"loop", "done"}

\* C18: one progress line has been printed for every group handled so far,
\* whether its group call returned or failed and the fallback handled it.
C18_ProgressPerGroup ==
    \A w \in Workers :
        BetweenGroups(w) => Len(ProgressLines(w)) = Len(GroupCalls(w))

\* The part of C18 for the groups whose group call returned: one progress line
\* for each of them, carrying the processed count, and none for the others.
C18_ProgressPerReturnedGroup ==
    \A w \in Workers :
        /\ Len(ProgressLines(w)) =
              Len(SelectSeq(calls[w], LAMBDA c : c.kind = "group" /\ c.ok))
        /\ (BetweenGroups(w) /\ out[w][Len(out[w])].kind = "progress") =>
              out[w][Len(out[w])].processed = processed[w]

\* ------------------------------------------------------------ the accumulator
\* Worker w is inside the for loop of process_chunks, between two chunks.
InsideLoop(w) == pc[w] \in {"loop", "zip", "fallback"}

\* C19: between two chunks, processed = FILE_BATCH_SIZE * file_batch_num +
\* len(file_batch) with len(file_batch) < FILE_BATCH_SIZE; and the finished run
\* has written ceil(processed / FILE_BATCH_SIZE) files.
C19_AccumulatorInvariant ==
    \A w \in Workers :
        /\ InsideLoop(w) =>
              /\ processed[w] =
                    FILE_BATCH_SIZE * file_batch_num[w] + Len(file_batch[w])
              /\ Len(file_batch[w]) < FILE_BATCH_SIZE
        /\ Finished(w) =>
              /\ Len(WritesOf(w)) = Ceil(processed[w], FILE_BATCH_SIZE)
              /\ file_batch_num[w] = Ceil(processed[w], FILE_BATCH_SIZE)

\* A finished run that lost a chunk of a window of more than FILE_BATCH_SIZE
\* and wrote one full file, the last flush finding the accumulator empty.
C19_Witness ==
    \E w \in Workers :
        /\ Finished(w)
        /\ Total(w) > FILE_BATCH_SIZE
        /\ processed[w] = FILE_BATCH_SIZE
        /\ Len(writes) = 1
        /\ file_batch[w] = <<>>

\* A finished run in which every chunk was skipped.
AllSkippedRun ==
    \E w \in Workers :
        Finished(w) /\ Total(w) > 0 /\ processed[w] = 0 /\ writes = <<>>

\* The chunks (as indices of the window) in the accumulator.
Accumulated(w) == {file_batch[w][n] : n \in DOMAIN file_batch[w]}

\* The chunks of the window that have their vector.
WithVector(w) == {k \in DOMAIN chunks[w] : "embedding" \in DOMAIN chunks[w][k]}

\* C20: no chunk is in the accumulator twice, no file holds a chunk twice, and
\* processed counts each chunk that has its vector once, also after an
\* exception raised inside the try block once the group call has returned.
C20_AppendedOnce ==
    \A w \in Workers :
        /\ Cardinality(Accumulated(w)) = Len(file_batch[w])
        /\ \A n \in DOMAIN writes : writes[n].size <= FILE_BATCH_SIZE
        /\ processed[w] = Cardinality(WithVector(w))

\* The group calls of a finished run: every group of the window, in order.
AttemptedEveryGroup(w) ==
    LET gs == SelectSeq(calls[w], LAMBDA c : c.kind = "group")
    IN  /\ Len(gs) = (Total(w) + EMBED_BATCH_SIZE - 1) \div EMBED_BATCH_SIZE
        /\ \A n \in DOMAIN gs :
              gs[n].idx = BatchIndices(Total(w), (n - 1) * EMBED_BATCH_SIZE)

\* What is left in the accumulator at the end is in the last file written.
AccumulatorFlushed(w) ==
    file_batch[w] # <<>> =>
        /\ FilePath(w, file_batch_num[w] - 1) \in DOMAIN disk
        /\ disk[FilePath(w, file_batch_num[w] - 1)] = Serialise(LocalState(w))

\* The worker is through: it had nothing to process, or process_chunks printed
\* its summary after attempting every group in order and flushing the
\* accumulator.
ReachedSummary(w) ==
    \/ pc[w] \in {"off", "exit"}
    \/ /\ Finished(w)
       /\ AttemptedEveryGroup(w)
       /\ AccumulatorFlushed(w)
       /\ out[w][Len(out[w])].kind \in {"done", "warning"}

EveryWorkerReachedSummary == \A w \in Workers : ReachedSummary(w)

\* C10: whatever calls fail, the run does not abort: it reaches its summary,
\* having attempted every group in order and flushed the accumulator.
C10_ReachesSummary == <>EveryWorkerReachedSummary

\* A finished run in which a group call and a single-item call failed.
C10_Witness ==
    \E w \in Workers :
        Finished(w) /\ FailedGroups(w) # {} /\ FailedSingles(w) # {}

====
